---- MODULE Spec2Model ----
(***************************************************************************)
(* A model of lasagne/updates.py: the six update rules (sgd, momentum,     *)
(* nesterov_momentum, adagrad, rmsprop, adadelta), which build Theano      *)
(* update lists over shared variables, and norm_constraint.                *)
(*                                                                         *)
(* Arithmetic is exact.  A number is a finite sum of terms q*sqrt(r) with  *)
(* q a non-zero rational and r a square-free positive integer, which is    *)
(* closed under the +, -, *, / and sqrt the rules apply to the inputs      *)
(* enumerated here.  Floating-point rounding is not modelled.              *)
(***************************************************************************)
EXTENDS Integers, Sequences, FiniteSets, TLC

VARIABLES
    tensor_var,    \* norm_constraint: the tensor it is applied to
    max_norm,      \* norm_constraint: max_norm
    norm_axes,     \* norm_constraint: norm_axes, or None
    epsilon,       \* norm_constraint: epsilon
    constrained,   \* the outcomes of norm_constraint and of norm_constraint
                   \* applied to its own output
    shared,        \* the values of the Theano shared variables, by identity:
                   \* the model's parameters, then the accumulators as created
    calls,         \* the calls of update rules made so far, each with its
                   \* arguments and the update list it returned
    steps,         \* per call, how many times its update list was applied
    last,          \* the update list applied last, the gradients it was
                   \* applied with and the shared variables' values before
    loss,          \* SpecNesterov: the loss, by its gradient's coefficients
    classical      \* SpecNesterov: per parameter, the position and velocity
                   \* of classical Nesterov momentum run on the same loss

normVars == <<tensor_var, max_norm, norm_axes, epsilon, constrained>>
ruleVars == <<shared, calls, steps, last>>
lossVars == <<loss, classical>>
vars == <<tensor_var, max_norm, norm_axes, epsilon, constrained, shared, calls, steps, last,
          loss, classical>>

(***************************************************************************)
(* Exact numbers                                                           *)
(***************************************************************************)
Abs(x) == IF x < 0 THEN -x ELSE x

RECURSIVE GCD(_, _)
GCD(a, b) == IF b = 0 THEN a ELSE GCD(b, a % b)

\* the term (n/d)*sqrt(r) in lowest terms, d > 0
Term(r, n, d) ==
    LET s == IF d < 0 THEN -1 ELSE 1
        g == GCD(Abs(n), Abs(d))
    IN  [r |-> r, n |-> (s * n) \div g, d |-> (s * d) \div g]

\* the rational n/d
Rat(n, d) == IF n = 0 THEN {} ELSE {Term(1, n, d)}

Zero == Rat(0, 1)
One == Rat(1, 1)

\* the result of 0/0, of x/0 and of the square root of a negative number
NaN == {[r |-> 0, n |-> 0, d |-> 0]}

\* an operation this number representation is not closed under
Unsupported == CHOOSE x \in {} : TRUE

Rads(a) == {t.r : t \in a}

CoefOf(a, s) ==
    IF \E t \in a : t.r = s
    THEN LET t == CHOOSE u \in a : u.r = s IN <<t.n, t.d>>
    ELSE <<0, 1>>

IsRational(a) == a # NaN /\ Rads(a) \subseteq {1}

RAdd(a, b) ==
    IF a = NaN \/ b = NaN THEN NaN
    ELSE LET sum(s) == LET x == CoefOf(a, s)
                           y == CoefOf(b, s)
                       IN  <<x[1] * y[2] + y[1] * x[2], x[2] * y[2]>>
         IN  {Term(s, sum(s)[1], sum(s)[2]) :
                 s \in {u \in Rads(a) \cup Rads(b) : sum(u)[1] # 0}}

RNeg(a) == {[r |-> t.r, n |-> -t.n, d |-> t.d] : t \in a}

RSub(a, b) == RAdd(a, RNeg(b))

TermMul(t, u) ==
    LET g == GCD(t.r, u.r)
    IN  Term((t.r \div g) * (u.r \div g), t.n * u.n * g, t.d * u.d)

RECURSIVE MulFold(_)
MulFold(P) ==
    IF P = {} THEN {}
    ELSE LET p == CHOOSE q \in P : TRUE
         IN  RAdd({TermMul(p[1], p[2])}, MulFold(P \ {p}))

RMul(a, b) == IF a = NaN \/ b = NaN THEN NaN ELSE MulFold(a \X b)

RSqr(a) == RMul(a, a)

RECURSIVE SquarePartFrom(_, _)
SquarePartFrom(m, k) ==
    IF k * k > m THEN 1
    ELSE LET rest == SquarePartFrom(m, k + 1)
         IN  IF rest > 1 THEN rest
             ELSE IF m % (k * k) = 0 THEN k ELSE 1

\* the largest k with k*k dividing m, m > 0
SquarePart(m) == SquarePartFrom(m, 1)

\* the square root of a rational
RSqrt(a) ==
    IF a = NaN THEN NaN
    ELSE IF a = {} THEN {}
    ELSE IF ~IsRational(a) THEN Unsupported
    ELSE LET t  == CHOOSE u \in a : TRUE
             kn == SquarePart(t.n)
             kd == SquarePart(t.d)
             sn == t.n \div (kn * kn)
             sd == t.d \div (kd * kd)
         IN  IF t.n < 0 THEN NaN
             ELSE {Term(sn * sd, kn, kd * sd)}

\* division by a number of one term
RDiv(a, b) ==
    IF a = NaN \/ b = NaN \/ b = {} THEN NaN
    ELSE IF Cardinality(b) # 1 THEN Unsupported
    ELSE LET t == CHOOSE u \in b : TRUE
         IN  RMul(a, {Term(t.r, t.d, t.n * t.r)})

\* -1, 0 or 1, for a number of at most one term
RSign(a) ==
    IF a = {} THEN 0
    ELSE IF Cardinality(a) # 1 THEN Unsupported
    ELSE LET t == CHOOSE u \in a : TRUE IN IF t.n < 0 THEN -1 ELSE 1

\* a <= b for rationals
QLe(a, b) ==
    LET x == CoefOf(a, 1)
        y == CoefOf(b, 1)
    IN  x[1] * y[2] <= y[1] * x[2]

\* a <= b for numbers of at most one term; FALSE when either is NaN
RLe(a, b) ==
    IF a = NaN \/ b = NaN THEN FALSE
    ELSE LET sa == RSign(a)
             sb == RSign(b)
         IN  IF sa # sb THEN sa < sb
             ELSE IF sa = 0 THEN TRUE
             ELSE IF sa > 0 THEN QLe(RSqr(a), RSqr(b))
             ELSE QLe(RSqr(b), RSqr(a))

RLt(a, b) == a # NaN /\ b # NaN /\ ~RLe(b, a)

(***************************************************************************)
(* Tensors: a shape and one number per index; axes and indices count       *)
(* from 0 as in the source.                                                *)
(***************************************************************************)
RECURSIVE IndicesUpTo(_, _)
IndicesUpTo(shape, n) ==
    IF n = 0 THEN {<<>>}
    ELSE {Append(idx, i) : idx \in IndicesUpTo(shape, n - 1), i \in 0..(shape[n] - 1)}

\* the indices of a tensor of the shape
Indices(shape) == IndicesUpTo(shape, Len(shape))

Scalar(x) == [shape |-> <<>>, data |-> [idx \in {<<>>} |-> x]]

\* np.zeros(shape)
Zeros(shape) == [shape |-> shape, data |-> [idx \in Indices(shape) |-> Zero]]

\* the element of a at idx, with axes of length 1 and scalars broadcast
At(a, idx) ==
    IF Len(a.shape) = 0 THEN a.data[<<>>]
    ELSE a.data[[k \in 1..Len(a.shape) |-> IF a.shape[k] = 1 THEN 0 ELSE idx[k]]]

BroadcastShape(a, b) ==
    IF Len(a.shape) = 0 THEN b.shape
    ELSE IF Len(b.shape) = 0 THEN a.shape
    ELSE [k \in 1..Len(a.shape) |-> IF a.shape[k] >= b.shape[k] THEN a.shape[k] ELSE b.shape[k]]

\* elementwise operations of theano.tensor
TAdd(a, b) ==
    [shape |-> BroadcastShape(a, b),
     data |-> [idx \in Indices(BroadcastShape(a, b)) |-> RAdd(At(a, idx), At(b, idx))]]
TSub(a, b) ==
    [shape |-> BroadcastShape(a, b),
     data |-> [idx \in Indices(BroadcastShape(a, b)) |-> RSub(At(a, idx), At(b, idx))]]
TMul(a, b) ==
    [shape |-> BroadcastShape(a, b),
     data |-> [idx \in Indices(BroadcastShape(a, b)) |-> RMul(At(a, idx), At(b, idx))]]
TDiv(a, b) ==
    [shape |-> BroadcastShape(a, b),
     data |-> [idx \in Indices(BroadcastShape(a, b)) |-> RDiv(At(a, idx), At(b, idx))]]
TSqr(a) == [shape |-> a.shape, data |-> [idx \in Indices(a.shape) |-> RSqr(a.data[idx])]]
TSqrt(a) == [shape |-> a.shape, data |-> [idx \in Indices(a.shape) |-> RSqrt(a.data[idx])]]

\* T.clip(x, min, max) with scalar bounds
ClipValue(x, lo, hi) == IF RLt(x, lo) THEN lo ELSE IF RLt(hi, x) THEN hi ELSE x
TClip(a, lo, hi) ==
    [shape |-> a.shape, data |-> [idx \in Indices(a.shape) |-> ClipValue(a.data[idx], lo, hi)]]

Range(s) == {s[k] : k \in DOMAIN s}

RECURSIVE SumOf(_, _)
SumOf(a, I) ==
    IF I = {} THEN Zero
    ELSE LET i == CHOOSE j \in I : TRUE
         IN  RAdd(a.data[i], SumOf(a, I \ {i}))

\* T.sum(a, axis=axes, keepdims=True)
TSum(a, axes) ==
    LET shape == [k \in 1..Len(a.shape) |-> IF (k - 1) \in Range(axes) THEN 1 ELSE a.shape[k]]
        slice(key) == {idx \in Indices(a.shape) :
                          \A k \in 1..Len(a.shape) : (k - 1) \notin Range(axes) => idx[k] = key[k]}
    IN  [shape |-> shape, data |-> [key \in Indices(shape) |-> SumOf(a, slice(key))]]

(***************************************************************************)
(* norm_constraint                                                         *)
(***************************************************************************)
\* norm_axes=None
None == [given |-> FALSE, axes |-> <<>>]
Axes(t) == [given |-> TRUE, axes |-> t]

\* "...{}...".format(ndim)
Format(text, arg) == [text |-> text, arg |-> arg]

\* ResolveAxes with the default for 5D tensors left out
ResolveAxesNo5D(ndim, norm_axes_) ==
    IF norm_axes_.given
    THEN [raised |-> FALSE, sum_over |-> norm_axes_.axes, msg |-> Format("", 0)]
    ELSE IF ndim = 2
    THEN [raised |-> FALSE, sum_over |-> <<0>>, msg |-> Format("", 0)]
    ELSE IF ndim \in {3, 4}
    THEN [raised |-> FALSE, sum_over |-> [k \in 1..(ndim - 1) |-> k], msg |-> Format("", 0)]
    ELSE [raised |-> TRUE, sum_over |-> <<>>,
          msg |-> Format("Unsupported tensor dimensionality {}.Must specify norm_axes", ndim)]

\* the reduction axes, or the ValueError
ResolveAxes(ndim, norm_axes_) ==
    IF norm_axes_.given
    THEN [raised |-> FALSE, sum_over |-> norm_axes_.axes, msg |-> Format("", 0)]
    ELSE IF ndim = 2
    THEN [raised |-> FALSE, sum_over |-> <<0>>, msg |-> Format("", 0)]
    ELSE IF ndim \in {3, 4, 5}
    THEN [raised |-> FALSE, sum_over |-> [k \in 1..(ndim - 1) |-> k], msg |-> Format("", 0)]
    ELSE [raised |-> TRUE, sum_over |-> <<>>,
          msg |-> Format("Unsupported tensor dimensionality {}.Must specify norm_axes", ndim)]

Norms(t, sum_over) == TSqrt(TSum(TSqr(t), sum_over))

\* TargetNorms without the clip
TargetNormsUnclipped(norms, max_norm_) == norms

TargetNorms(norms, max_norm_) == TClip(norms, Zero, max_norm_)

\* ConstrainedOutput without the division by epsilon + norms
ConstrainedOutputUndivided(t, sum_over, max_norm_, epsilon_) ==
    TMul(t, TargetNorms(Norms(t, sum_over), max_norm_))

ConstrainedOutput(t, sum_over, max_norm_, epsilon_) ==
    LET norms        == Norms(t, sum_over)
        target_norms == TargetNorms(norms, max_norm_)
    IN  TMul(t, TDiv(target_norms, TAdd(Scalar(epsilon_), norms)))

\* the call's outcome: out holds the returned expression's value, and is
\* empty when the call raised
NormConstraint(t, max_norm_, norm_axes_, epsilon_) ==
    LET ax == ResolveAxes(Len(t.shape), norm_axes_)
    IN  IF ax.raised
        THEN [raised |-> TRUE, msg |-> ax.msg, sum_over |-> ax.sum_over, out |-> <<>>]
        ELSE [raised |-> FALSE, msg |-> ax.msg, sum_over |-> ax.sum_over,
              out |-> <<ConstrainedOutput(t, ax.sum_over, max_norm_, epsilon_)>>]

(***************************************************************************)
(* norm_constraint applied to a tensor, and again to its own output        *)
(***************************************************************************)
MaxRank == 6
MaxDim == 2
MaxElems == 2

RECURSIVE Prod(_)
Prod(s) == IF Len(s) = 0 THEN 1 ELSE Head(s) * Prod(Tail(s))

Shapes == UNION {{s \in [1..r -> 1..MaxDim] : Prod(s) <= MaxElems} : r \in 0..MaxRank}

Values == {Rat(-4, 1), Zero, Rat(3, 1)}

Tensors == UNION {[shape : {s}, data : [Indices(s) -> Values]] : s \in Shapes}

MaxNorms == {Zero, Rat(4, 1), Rat(5, 1)}

Epsilons == {Zero, Rat(1, 2)}

\* None, no axis, the first axis, the last axis, or every axis
AxesChoices(ndim) ==
    {None, Axes(<<>>), Axes([k \in 1..ndim |-> k - 1])}
        \cup {Axes(<<k>>) : k \in {0, ndim - 1} \cap 0..(ndim - 1)}

\* the inputs on which the arithmetic stays within sums of one term: epsilon
\* is 0 or every norm is rational
Closed(t, norm_axes_, epsilon_) ==
    LET ax == ResolveAxes(Len(t.shape), norm_axes_)
    IN  \/ ax.raised
        \/ epsilon_ = Zero
        \/ \A idx \in Indices(t.shape) : IsRational(At(Norms(t, ax.sum_over), idx))

InitNorm ==
    /\ tensor_var \in Tensors
    /\ max_norm \in MaxNorms
    /\ norm_axes \in AxesChoices(Len(tensor_var.shape))
    /\ epsilon \in Epsilons
    /\ Closed(tensor_var, norm_axes, epsilon)
    /\ constrained = <<>>
    /\ shared = <<>>
    /\ calls = <<>>
    /\ steps = <<>>
    /\ last = [call |-> 0, grads |-> <<>>, before |-> <<>>]
    /\ loss = [a2 |-> Zero, a1 |-> Zero, a0 |-> Zero]
    /\ classical = <<>>

Constrain ==
    /\ Len(constrained) = 0
    /\ constrained' = <<NormConstraint(tensor_var, max_norm, norm_axes, epsilon)>>
    /\ UNCHANGED <<tensor_var, max_norm, norm_axes, epsilon>>
    /\ UNCHANGED ruleVars
    /\ UNCHANGED lossVars

ConstrainAgain ==
    /\ Len(constrained) = 1
    /\ ~constrained[1].raised
    /\ constrained' = Append(constrained,
                             NormConstraint(constrained[1].out[1], max_norm, norm_axes, epsilon))
    /\ UNCHANGED <<tensor_var, max_norm, norm_axes, epsilon>>
    /\ UNCHANGED ruleVars
    /\ UNCHANGED lossVars

NextNorm == Constrain \/ ConstrainAgain

SpecNorm == InitNorm /\ [][NextNorm]_vars

(***************************************************************************)
(* Properties of norm_constraint, under SpecNorm                           *)
(***************************************************************************)
Rank == Len(tensor_var.shape)

Finite(t) == \A idx \in Indices(t.shape) : t.data[idx] # NaN

RMin(a, b) == IF RLe(a, b) THEN a ELSE b

\* C2: norm_constraint takes its reduction axes from norm_axes when given,
\* for any rank and without an error; otherwise rank 2 reduces over axis 0,
\* ranks 3, 4 and 5 over the axes 1..rank-1, and every other rank raises an
\* error whose message holds the rank, and no output is produced.
C2_AxisResolution ==
    Len(constrained) >= 1 =>
        LET res == constrained[1]
        IN  IF norm_axes.given
            THEN ~res.raised /\ res.sum_over = norm_axes.axes /\ Len(res.out) = 1
            ELSE IF Rank = 2
            THEN ~res.raised /\ res.sum_over = <<0>> /\ Len(res.out) = 1
            ELSE IF Rank \in {3, 4, 5}
            THEN /\ ~res.raised
                 /\ Len(res.sum_over) = Rank - 1
                 /\ Range(res.sum_over) = 1..(Rank - 1)
                 /\ Len(res.out) = 1
            ELSE /\ res.raised
                 /\ res.msg.arg = Rank
                 /\ res.out = <<>>

\* a tensor of rank 1 was given without norm_axes, and the call raised
C2_Witness ==
    /\ Len(constrained) >= 1
    /\ ~norm_axes.given
    /\ Rank = 1
    /\ constrained[1].raised

\* C3: every slice of the output of norm_constraint has a norm over the
\* reduction axes of at most max_norm, and every element is the input's
\* times min(norm, max_norm) / (epsilon + norm); a slice of norm 0 with
\* epsilon = 0 is excepted.
C3_NormBounded ==
    (Len(constrained) >= 1 /\ ~constrained[1].raised) =>
        LET res   == constrained[1]
            out   == res.out[1]
            norms == Norms(tensor_var, res.sum_over)
            after == Norms(out, res.sum_over)
        IN  \A idx \in Indices(tensor_var.shape) :
                \/ epsilon = Zero /\ At(norms, idx) = Zero
                \/ /\ RLe(At(after, idx), max_norm)
                   /\ out.data[idx] =
                          RMul(tensor_var.data[idx],
                               RDiv(RMin(At(norms, idx), max_norm),
                                    RAdd(epsilon, At(norms, idx))))

\* a slice whose norm exceeded max_norm was rescaled, with a positive epsilon
C3_Witness ==
    /\ Len(constrained) >= 1
    /\ ~constrained[1].raised
    /\ epsilon # Zero
    /\ \E idx \in Indices(tensor_var.shape) :
           RLt(max_norm, At(Norms(tensor_var, constrained[1].sum_over), idx))

NoZeroNorm ==
    \A idx \in Indices(tensor_var.shape) :
        At(Norms(tensor_var, constrained[1].sum_over), idx) # Zero

\* C4 as stated: norm_constraint applied to its own output, with the same
\* max_norm, norm_axes and epsilon, returns that output unchanged (wherever
\* both outputs are numbers: 0/0 compares equal to nothing).
C4_Idempotent ==
    (Len(constrained) = 2 /\ Finite(constrained[1].out[1]) /\ Finite(constrained[2].out[1])) =>
        constrained[2].out = constrained[1].out

\* C4 amended: with epsilon = 0, max_norm > 0 and no slice of norm 0,
\* norm_constraint applied to its own output returns that output unchanged.
C4_IdempotentNoEpsilon ==
    (Len(constrained) = 2 /\ epsilon = Zero /\ RLt(Zero, max_norm) /\ NoZeroNorm) =>
        constrained[2].out = constrained[1].out

\* norm_constraint was applied twice with epsilon = 0 to a tensor with a
\* slice above max_norm
C4_Witness ==
    /\ Len(constrained) = 2
    /\ epsilon = Zero
    /\ RLt(Zero, max_norm)
    /\ NoZeroNorm
    /\ \E idx \in Indices(tensor_var.shape) :
           RLt(max_norm, At(Norms(tensor_var, constrained[1].sum_over), idx))

(***************************************************************************)
(* Symbolic expressions over shared variables, gradients and constants     *)
(***************************************************************************)
SharedVar(id) == [op |-> "shared", id |-> id]
\* theano.grad(loss, wrt): the gradient of the loss with respect to a parameter
Grad(wrt) == [op |-> "grad", wrt |-> wrt]
Const(v) == [op |-> "const", v |-> v]
Add(l, r) == [op |-> "add", l |-> l, r |-> r]
Sub(l, r) == [op |-> "sub", l |-> l, r |-> r]
Mul(l, r) == [op |-> "mul", l |-> l, r |-> r]
Div(l, r) == [op |-> "div", l |-> l, r |-> r]
Sqr(x) == [op |-> "sqr", x |-> x]
Sqrt(x) == [op |-> "sqrt", x |-> x]

Unary == {"sqr", "sqrt"}
Binary == {"add", "sub", "mul", "div"}

\* the value of an expression, given the shared variables' values and the
\* value of the gradient with respect to each parameter
RECURSIVE Eval(_, _, _)
Eval(e, sh, g) ==
    CASE e.op = "shared" -> sh[e.id]
      [] e.op = "grad"   -> g[e.wrt]
      [] e.op = "const"  -> Scalar(e.v)
      [] e.op = "add"    -> TAdd(Eval(e.l, sh, g), Eval(e.r, sh, g))
      [] e.op = "sub"    -> TSub(Eval(e.l, sh, g), Eval(e.r, sh, g))
      [] e.op = "mul"    -> TMul(Eval(e.l, sh, g), Eval(e.r, sh, g))
      [] e.op = "div"    -> TDiv(Eval(e.l, sh, g), Eval(e.r, sh, g))
      [] e.op = "sqr"    -> TSqr(Eval(e.x, sh, g))
      [] e.op = "sqrt"   -> TSqrt(Eval(e.x, sh, g))

\* the shared variables an expression reads
RECURSIVE Reads(_)
Reads(e) ==
    IF e.op = "shared" THEN {e.id}
    ELSE IF e.op \in Unary THEN Reads(e.x)
    ELSE IF e.op \in Binary THEN Reads(e.l) \cup Reads(e.r)
    ELSE {}

\* the parameters whose gradient an expression reads
RECURSIVE GradsOf(_)
GradsOf(e) ==
    IF e.op = "grad" THEN {e.wrt}
    ELSE IF e.op \in Unary THEN GradsOf(e.x)
    ELSE IF e.op \in Binary THEN GradsOf(e.l) \cup GradsOf(e.r)
    ELSE {}

(***************************************************************************)
(* The update rules.  Each takes the shared variables' values sh, the      *)
(* parameter list and its hyperparameters, and yields the shared variables *)
(* it creates (in creation order, following those of sh) and the update    *)
(* list it returns.                                                        *)
(***************************************************************************)
Update(target, value) == [target |-> target, value |-> value]

RECURSIVE Concat(_)
Concat(ss) == IF Len(ss) = 0 THEN <<>> ELSE Head(ss) \o Concat(Tail(ss))

\* theano.grad(loss, all_params)
AllGradsOf(all_params) == [i \in 1..Len(all_params) |-> Grad(all_params[i])]

\* ZerosLike with the shape of the first shared variable
ZerosLikeFirst(sh, param) == Zeros(sh[1].shape)

\* theano.shared(np.zeros(param.get_value().shape))
ZerosLike(sh, param) == Zeros(sh[param].shape)

Sgd(sh, all_params, learning_rate) ==
    LET all_grads == AllGradsOf(all_params)
        entry(i)  ==
            LET param_i == all_params[i]
                grad_i  == all_grads[i]
            IN  <<Update(param_i, Sub(SharedVar(param_i), Mul(Const(learning_rate), grad_i)))>>
    IN  [created |-> <<>>,
         updates |-> Concat([i \in 1..Len(all_params) |-> entry(i)])]

\* Momentum without the update of the velocity
MomentumNoVelocityUpdate(sh, all_params, learning_rate, momentum) ==
    LET all_grads == AllGradsOf(all_params)
        entry(i)  ==
            LET param_i  == all_params[i]
                grad_i   == all_grads[i]
                mparam_i == Len(sh) + i
                v == Sub(Mul(Const(momentum), SharedVar(mparam_i)),
                         Mul(Const(learning_rate), grad_i))
            IN  <<Update(param_i, Add(SharedVar(param_i), v))>>
    IN  [created |-> [i \in 1..Len(all_params) |-> ZerosLike(sh, all_params[i])],
         updates |-> Concat([i \in 1..Len(all_params) |-> entry(i)])]

\* Momentum with the parameter moved by the old velocity
MomentumOldVelocity(sh, all_params, learning_rate, momentum) ==
    LET all_grads == AllGradsOf(all_params)
        entry(i)  ==
            LET param_i  == all_params[i]
                grad_i   == all_grads[i]
                mparam_i == Len(sh) + i
                v == Sub(Mul(Const(momentum), SharedVar(mparam_i)),
                         Mul(Const(learning_rate), grad_i))
            IN  <<Update(mparam_i, v),
                  Update(param_i, Add(SharedVar(param_i), SharedVar(mparam_i)))>>
    IN  [created |-> [i \in 1..Len(all_params) |-> ZerosLike(sh, all_params[i])],
         updates |-> Concat([i \in 1..Len(all_params) |-> entry(i)])]

Momentum(sh, all_params, learning_rate, momentum) ==
    LET all_grads == AllGradsOf(all_params)
        entry(i)  ==
            LET param_i  == all_params[i]
                grad_i   == all_grads[i]
                mparam_i == Len(sh) + i
                v == Sub(Mul(Const(momentum), SharedVar(mparam_i)),
                         Mul(Const(learning_rate), grad_i))
            IN  <<Update(mparam_i, v),
                  Update(param_i, Add(SharedVar(param_i), v))>>
    IN  [created |-> [i \in 1..Len(all_params) |-> ZerosLike(sh, all_params[i])],
         updates |-> Concat([i \in 1..Len(all_params) |-> entry(i)])]

\* NesterovMomentum with the parameter moved by the new velocity alone
NesterovPlainMomentum(sh, all_params, learning_rate, momentum) ==
    LET all_grads == AllGradsOf(all_params)
        entry(i)  ==
            LET param_i  == all_params[i]
                grad_i   == all_grads[i]
                mparam_i == Len(sh) + i
                v == Sub(Mul(Const(momentum), SharedVar(mparam_i)),
                         Mul(Const(learning_rate), grad_i))
                w == Add(SharedVar(param_i), v)
            IN  <<Update(mparam_i, v),
                  Update(param_i, w)>>
    IN  [created |-> [i \in 1..Len(all_params) |-> ZerosLike(sh, all_params[i])],
         updates |-> Concat([i \in 1..Len(all_params) |-> entry(i)])]

NesterovMomentum(sh, all_params, learning_rate, momentum) ==
    LET all_grads == AllGradsOf(all_params)
        entry(i)  ==
            LET param_i  == all_params[i]
                grad_i   == all_grads[i]
                mparam_i == Len(sh) + i
                v == Sub(Mul(Const(momentum), SharedVar(mparam_i)),
                         Mul(Const(learning_rate), grad_i))
                w == Sub(Add(SharedVar(param_i), Mul(Const(momentum), v)),
                         Mul(Const(learning_rate), grad_i))
            IN  <<Update(mparam_i, v),
                  Update(param_i, w)>>
    IN  [created |-> [i \in 1..Len(all_params) |-> ZerosLike(sh, all_params[i])],
         updates |-> Concat([i \in 1..Len(all_params) |-> entry(i)])]

\* Adagrad with accumulators kept per parameter across calls
AdagradCachedAccumulators(sh, all_params, learning_rate, epsilon_) ==
    LET all_grads        == AllGradsOf(all_params)
        all_accumulators == [i \in 1..Len(all_params) |-> 2 + all_params[i]]
        entry(i)  ==
            LET param_i   == all_params[i]
                grad_i    == all_grads[i]
                acc_i     == all_accumulators[i]
                acc_i_new == Add(SharedVar(acc_i), Sqr(grad_i))
            IN  <<Update(acc_i, acc_i_new),
                  Update(param_i,
                         Sub(SharedVar(param_i),
                             Div(Mul(Const(learning_rate), grad_i),
                                 Sqrt(Add(acc_i_new, Const(epsilon_))))))>>
    IN  [created |-> IF Len(sh) > 2 THEN <<>> ELSE [p \in 1..2 |-> Zeros(sh[p].shape)],
         updates |-> Concat([i \in 1..Len(all_params) |-> entry(i)])]

Adagrad(sh, all_params, learning_rate, epsilon_) ==
    LET all_grads        == AllGradsOf(all_params)
        all_accumulators == [i \in 1..Len(all_params) |-> Len(sh) + i]
        entry(i)  ==
            LET param_i   == all_params[i]
                grad_i    == all_grads[i]
                acc_i     == all_accumulators[i]
                acc_i_new == Add(SharedVar(acc_i), Sqr(grad_i))
            IN  <<Update(acc_i, acc_i_new),
                  Update(param_i,
                         Sub(SharedVar(param_i),
                             Div(Mul(Const(learning_rate), grad_i),
                                 Sqrt(Add(acc_i_new, Const(epsilon_))))))>>
    IN  [created |-> [i \in 1..Len(all_params) |-> ZerosLike(sh, all_params[i])],
         updates |-> Concat([i \in 1..Len(all_params) |-> entry(i)])]

\* Rmsprop with the squared gradient subtracted
RmspropSubtracting(sh, all_params, learning_rate, rho, epsilon_) ==
    LET all_grads        == AllGradsOf(all_params)
        all_accumulators == [i \in 1..Len(all_params) |-> Len(sh) + i]
        entry(i)  ==
            LET param_i   == all_params[i]
                grad_i    == all_grads[i]
                acc_i     == all_accumulators[i]
                acc_i_new == Sub(Mul(Const(rho), SharedVar(acc_i)),
                                 Mul(Const(RSub(One, rho)), Sqr(grad_i)))
            IN  <<Update(acc_i, acc_i_new),
                  Update(param_i,
                         Sub(SharedVar(param_i),
                             Div(Mul(Const(learning_rate), grad_i),
                                 Sqrt(Add(acc_i_new, Const(epsilon_))))))>>
    IN  [created |-> [i \in 1..Len(all_params) |-> ZerosLike(sh, all_params[i])],
         updates |-> Concat([i \in 1..Len(all_params) |-> entry(i)])]

Rmsprop(sh, all_params, learning_rate, rho, epsilon_) ==
    LET all_grads        == AllGradsOf(all_params)
        all_accumulators == [i \in 1..Len(all_params) |-> Len(sh) + i]
        entry(i)  ==
            LET param_i   == all_params[i]
                grad_i    == all_grads[i]
                acc_i     == all_accumulators[i]
                acc_i_new == Add(Mul(Const(rho), SharedVar(acc_i)),
                                 Mul(Const(RSub(One, rho)), Sqr(grad_i)))
            IN  <<Update(acc_i, acc_i_new),
                  Update(param_i,
                         Sub(SharedVar(param_i),
                             Div(Mul(Const(learning_rate), grad_i),
                                 Sqrt(Add(acc_i_new, Const(epsilon_))))))>>
    IN  [created |-> [i \in 1..Len(all_params) |-> ZerosLike(sh, all_params[i])],
         updates |-> Concat([i \in 1..Len(all_params) |-> entry(i)])]

\* Adadelta with the update computed from the old acc
AdadeltaOldAccumulator(sh, all_params, learning_rate, rho, epsilon_) ==
    LET n == Len(all_params)
        all_grads              == AllGradsOf(all_params)
        all_accumulators       == [i \in 1..n |-> Len(sh) + i]
        all_delta_accumulators == [i \in 1..n |-> Len(sh) + n + i]
        entry(i)  ==
            LET param_i     == all_params[i]
                grad_i      == all_grads[i]
                acc_i       == all_accumulators[i]
                acc_delta_i == all_delta_accumulators[i]
                acc_i_new   == Add(Mul(Const(rho), SharedVar(acc_i)),
                                   Mul(Const(RSub(One, rho)), Sqr(grad_i)))
                update_i    == Div(Mul(grad_i, Sqrt(Add(SharedVar(acc_delta_i), Const(epsilon_)))),
                                   Sqrt(Add(SharedVar(acc_i), Const(epsilon_))))
                acc_delta_i_new == Add(Mul(Const(rho), SharedVar(acc_delta_i)),
                                       Mul(Const(RSub(One, rho)), Sqr(update_i)))
            IN  <<Update(acc_i, acc_i_new),
                  Update(param_i, Sub(SharedVar(param_i), Mul(Const(learning_rate), update_i))),
                  Update(acc_delta_i, acc_delta_i_new)>>
    IN  [created |-> [i \in 1..n |-> ZerosLike(sh, all_params[i])]
                         \o [i \in 1..n |-> ZerosLike(sh, all_params[i])],
         updates |-> Concat([i \in 1..n |-> entry(i)])]

Adadelta(sh, all_params, learning_rate, rho, epsilon_) ==
    LET n == Len(all_params)
        all_grads              == AllGradsOf(all_params)
        all_accumulators       == [i \in 1..n |-> Len(sh) + i]
        all_delta_accumulators == [i \in 1..n |-> Len(sh) + n + i]
        entry(i)  ==
            LET param_i     == all_params[i]
                grad_i      == all_grads[i]
                acc_i       == all_accumulators[i]
                acc_delta_i == all_delta_accumulators[i]
                acc_i_new   == Add(Mul(Const(rho), SharedVar(acc_i)),
                                   Mul(Const(RSub(One, rho)), Sqr(grad_i)))
                update_i    == Div(Mul(grad_i, Sqrt(Add(SharedVar(acc_delta_i), Const(epsilon_)))),
                                   Sqrt(Add(acc_i_new, Const(epsilon_))))
                acc_delta_i_new == Add(Mul(Const(rho), SharedVar(acc_delta_i)),
                                       Mul(Const(RSub(One, rho)), Sqr(update_i)))
            IN  <<Update(acc_i, acc_i_new),
                  Update(param_i, Sub(SharedVar(param_i), Mul(Const(learning_rate), update_i))),
                  Update(acc_delta_i, acc_delta_i_new)>>
    IN  [created |-> [i \in 1..n |-> ZerosLike(sh, all_params[i])]
                         \o [i \in 1..n |-> ZerosLike(sh, all_params[i])],
         updates |-> Concat([i \in 1..n |-> entry(i)])]

(***************************************************************************)
(* Calls of the update rules on the model's parameters, and training       *)
(* steps: a step applies one returned update list, as theano.function      *)
(* does, evaluating every new value on the values before the step          *)
(***************************************************************************)
NumParams == 2
\* calls and steps under Spec
MaxCalls == 2
MaxSteps == 1
\* calls and steps under SpecTrain
MaxTrainCalls == 1
MaxTrainSteps == 2

\* the model's parameters: a scalar, and vectors
ParamShape(p) == IF p = 1 THEN <<>> ELSE <<2>>

ParamValue(p) == [shape |-> ParamShape(p), data |-> [idx \in Indices(ParamShape(p)) |-> Rat(p, 1)]]

Params == 1..NumParams

\* the lists of distinct parameters
ParamLists ==
    UNION {{l \in [1..n -> Params] : \A i, j \in 1..n : i # j => l[i] # l[j]} : n \in 0..NumParams}

LearningRates == {Rat(1, 2)}
Momenta == {Rat(1, 2)}
Rhos == {Zero, Rat(1, 2)}
RuleEpsilons == {One}
GradValues == {Rat(-1, 1), Zero, Rat(2, 1)}

Call(rule, all_params, learning_rate, momentum, rho, epsilon_, built) ==
    [rule |-> rule, all_params |-> all_params, learning_rate |-> learning_rate,
     momentum |-> momentum, rho |-> rho, epsilon |-> epsilon_,
     accumulators |-> [i \in 1..Len(built.created) |-> Len(shared) + i],
     updates |-> built.updates]

Return(call, built, maxCalls) ==
    /\ Len(calls) < maxCalls
    /\ shared' = shared \o built.created
    /\ calls' = Append(calls, call)
    /\ steps' = Append(steps, 0)
    /\ UNCHANGED last
    /\ UNCHANGED normVars
    /\ UNCHANGED lossVars

CallSgd(maxCalls) ==
    \E all_params \in ParamLists, learning_rate \in LearningRates :
        LET built == Sgd(shared, all_params, learning_rate)
        IN  Return(Call("sgd", all_params, learning_rate, Zero, Zero, Zero, built), built, maxCalls)

CallMomentum(maxCalls) ==
    \E all_params \in ParamLists, learning_rate \in LearningRates, momentum \in Momenta :
        LET built == Momentum(shared, all_params, learning_rate, momentum)
        IN  Return(Call("momentum", all_params, learning_rate, momentum, Zero, Zero, built), built, maxCalls)

CallNesterovMomentum(maxCalls) ==
    \E all_params \in ParamLists, learning_rate \in LearningRates, momentum \in Momenta :
        LET built == NesterovMomentum(shared, all_params, learning_rate, momentum)
        IN  Return(Call("nesterov_momentum", all_params, learning_rate, momentum, Zero, Zero, built),
                   built, maxCalls)

CallAdagrad(maxCalls) ==
    \E all_params \in ParamLists, learning_rate \in LearningRates, epsilon_ \in RuleEpsilons :
        LET built == Adagrad(shared, all_params, learning_rate, epsilon_)
        IN  Return(Call("adagrad", all_params, learning_rate, Zero, Zero, epsilon_, built), built, maxCalls)

CallRmsprop(maxCalls) ==
    \E all_params \in ParamLists, learning_rate \in LearningRates,
       rho \in Rhos, epsilon_ \in RuleEpsilons :
        LET built == Rmsprop(shared, all_params, learning_rate, rho, epsilon_)
        IN  Return(Call("rmsprop", all_params, learning_rate, Zero, rho, epsilon_, built), built, maxCalls)

CallAdadelta(maxCalls) ==
    \E all_params \in ParamLists, learning_rate \in LearningRates,
       rho \in Rhos, epsilon_ \in RuleEpsilons :
        LET built == Adadelta(shared, all_params, learning_rate, rho, epsilon_)
        IN  Return(Call("adadelta", all_params, learning_rate, Zero, rho, epsilon_, built), built, maxCalls)

Targets(updates) == {updates[k].target : k \in 1..Len(updates)}

\* the values of the shared variables after one application of an update
\* list with gradients g
Apply(updates, sh, g) ==
    [id \in DOMAIN sh |->
        IF id \in Targets(updates)
        THEN LET k == CHOOSE j \in 1..Len(updates) : updates[j].target = id
             IN  Eval(updates[k].value, sh, g)
        ELSE sh[id]]

GradTensors(shape) == [shape : {shape}, data : [Indices(shape) -> GradValues]]

\* a value for the gradient with respect to each parameter of the list
GradChoices(all_params) ==
    {g \in [Range(all_params) -> UNION {GradTensors(ParamShape(p)) : p \in Params}] :
        \A p \in Range(all_params) : g[p].shape = shared[p].shape}

TotalSteps == LET sum[k \in 0..Len(steps)] == IF k = 0 THEN 0 ELSE sum[k - 1] + steps[k]
              IN  sum[Len(steps)]

Step(maxSteps) ==
    \E c \in 1..Len(calls) :
        \E g \in GradChoices(calls[c].all_params) :
            /\ TotalSteps < maxSteps
            /\ shared' = Apply(calls[c].updates, shared, g)
            /\ steps' = [steps EXCEPT ![c] = @ + 1]
            /\ last' = [call |-> c, grads |-> g, before |-> shared]
            /\ UNCHANGED calls
            /\ UNCHANGED normVars
            /\ UNCHANGED lossVars

Init ==
    /\ shared = [p \in Params |-> ParamValue(p)]
    /\ calls = <<>>
    /\ steps = <<>>
    /\ last = [call |-> 0, grads |-> <<>>, before |-> <<>>]
    /\ tensor_var = Scalar(Zero)
    /\ max_norm = Zero
    /\ norm_axes = None
    /\ epsilon = Zero
    /\ constrained = <<>>
    /\ loss = [a2 |-> Zero, a1 |-> Zero, a0 |-> Zero]
    /\ classical = <<>>

Next ==
    \/ CallSgd(MaxCalls)
    \/ CallMomentum(MaxCalls)
    \/ CallNesterovMomentum(MaxCalls)
    \/ CallAdagrad(MaxCalls)
    \/ CallRmsprop(MaxCalls)
    \/ CallAdadelta(MaxCalls)
    \/ Step(MaxSteps)

Spec == Init /\ [][Next]_vars

NextTrain ==
    \/ CallSgd(MaxTrainCalls)
    \/ CallMomentum(MaxTrainCalls)
    \/ CallNesterovMomentum(MaxTrainCalls)
    \/ CallAdagrad(MaxTrainCalls)
    \/ CallRmsprop(MaxTrainCalls)
    \/ CallAdadelta(MaxTrainCalls)
    \/ Step(MaxTrainSteps)

SpecTrain == Init /\ [][NextTrain]_vars

(***************************************************************************)
(* nesterov_momentum on a loss whose gradient is a polynomial of the        *)
(* parameter, next to classical Nesterov momentum on the same loss          *)
(***************************************************************************)
MaxNesterovSteps == 2

StartValues == {Rat(-1, 1), Zero, Rat(2, 1)}
Coefficients == {Zero, One}
Losses == [a2 : Coefficients, a1 : {Rat(-1, 1), One}, a0 : Coefficients]
NesterovRates == {One}
NesterovMomenta == {Rat(1, 2), Rat(2, 1)}

\* the gradient of the loss at x, element by element
GradAt(l, x) ==
    TAdd(TAdd(TMul(Scalar(l.a2), TSqr(x)), TMul(Scalar(l.a1), x)), Scalar(l.a0))

InitNesterov ==
    /\ \E start \in [Params -> StartValues] :
           shared = [p \in Params |->
                        [shape |-> ParamShape(p),
                         data |-> [idx \in Indices(ParamShape(p)) |-> start[p]]]]
    /\ calls = <<>>
    /\ steps = <<>>
    /\ last = [call |-> 0, grads |-> <<>>, before |-> <<>>]
    /\ loss \in Losses
    /\ classical = <<>>
    /\ tensor_var = Scalar(Zero)
    /\ max_norm = Zero
    /\ norm_axes = None
    /\ epsilon = Zero
    /\ constrained = <<>>

\* nesterov_momentum is called; the classical run starts from the same
\* parameter values, at rest
StartNesterov ==
    \E all_params \in ParamLists, learning_rate \in NesterovRates, momentum \in NesterovMomenta :
        LET built == NesterovMomentum(shared, all_params, learning_rate, momentum)
        IN  /\ Len(calls) = 0
            /\ shared' = shared \o built.created
            /\ calls' = <<Call("nesterov_momentum", all_params, learning_rate, momentum,
                               Zero, Zero, built)>>
            /\ steps' = <<0>>
            /\ classical' = [p \in Range(all_params) |->
                                [theta |-> shared[p], u |-> Zeros(shared[p].shape)]]
            /\ UNCHANGED <<last, loss>>
            /\ UNCHANGED normVars

\* one step of classical Nesterov momentum: the gradient is taken at the
\* position looked ahead to
ClassicalStep(c, l, learning_rate, momentum) ==
    LET ahead == TAdd(c.theta, TMul(Scalar(momentum), c.u))
        u_new == TSub(TMul(Scalar(momentum), c.u), TMul(Scalar(learning_rate), GradAt(l, ahead)))
    IN  [theta |-> TAdd(c.theta, u_new), u |-> u_new]

\* one step of both runs; the update list is applied with the gradient at
\* the current parameter values
StepNesterov ==
    /\ Len(calls) = 1
    /\ steps[1] < MaxNesterovSteps
    /\ LET call == calls[1]
           g    == [p \in Range(call.all_params) |-> GradAt(loss, shared[p])]
       IN  /\ shared' = Apply(call.updates, shared, g)
           /\ last' = [call |-> 1, grads |-> g, before |-> shared]
           /\ classical' = [p \in DOMAIN classical |->
                               ClassicalStep(classical[p], loss, call.learning_rate, call.momentum)]
    /\ steps' = [steps EXCEPT ![1] = @ + 1]
    /\ UNCHANGED <<calls, loss>>
    /\ UNCHANGED normVars

NextNesterov == StartNesterov \/ StepNesterov

SpecNesterov == InitNesterov /\ [][NextNesterov]_vars

\* C8: run side by side from the same parameter values and zero velocity,
\* nesterov_momentum's steps and classical Nesterov momentum's steps keep
\* v = u and p = theta + momentum*u after every number of steps.
C8_NesterovEquivalence ==
    Len(calls) = 1 =>
        \A i \in 1..Len(calls[1].all_params) :
            LET param == calls[1].all_params[i]
                v     == shared[calls[1].accumulators[i]]
                c     == classical[param]
            IN  /\ v = c.u
                /\ shared[param] = TAdd(c.theta, TMul(Scalar(calls[1].momentum), c.u))

\* two steps were taken on both parameters with a gradient that is not
\* linear, and the scalar parameter is moving
C8_Witness ==
    /\ Len(calls) = 1
    /\ steps[1] = 2
    /\ Len(calls[1].all_params) = 2
    /\ loss.a2 # Zero
    /\ classical[1].u # Scalar(Zero)
    /\ classical[1].theta # shared[1]

(***************************************************************************)
(* Properties of the update lists, under Spec                              *)
(***************************************************************************)
\* the number of update entries a rule makes per parameter
Multiplicity(rule) ==
    IF rule = "sgd" THEN 1
    ELSE IF rule = "adadelta" THEN 3
    ELSE 2

TimesTargeted(updates, id) == Cardinality({k \in 1..Len(updates) : updates[k].target = id})

\* C1: the update list a rule returns for n distinct parameters has n*k
\* entries, k = 1 for sgd, 3 for adadelta and 2 for the other rules; every
\* parameter of the list is the target of exactly one entry, and no shared
\* variable is the target of two entries.
C1_PlanSize ==
    \A c \in 1..Len(calls) :
        LET call == calls[c]
        IN  /\ Len(call.updates) = Len(call.all_params) * Multiplicity(call.rule)
            /\ \A i \in 1..Len(call.all_params) :
                   TimesTargeted(call.updates, call.all_params[i]) = 1
            /\ \A id \in Targets(call.updates) : TimesTargeted(call.updates, id) = 1

\* adadelta and momentum have each been called on two parameters
C1_Witness ==
    /\ Len(calls) = 2
    /\ calls[1].rule = "adadelta"
    /\ calls[2].rule = "momentum"
    /\ Len(calls[1].all_params) = 2
    /\ Len(calls[2].all_params) = 2

\* the parameter the j-th accumulator of a call is made for
PairedParam(call, j) == call.all_params[((j - 1) % Len(call.all_params)) + 1]

UpdateOf(call, id) ==
    call.updates[CHOOSE k \in 1..Len(call.updates) : call.updates[k].target = id]

\* C5: a rule introduces one accumulator per parameter (adadelta two); each
\* is all zeros until the first step of its update list, has the shape of its
\* parameter, and is updated from the gradient of that parameter only, the
\* i-th accumulator being paired with the i-th parameter of all_params.
C5_AccumulatorPairing ==
    \A c \in 1..Len(calls) :
        LET call == calls[c]
            accs == call.accumulators
        IN  /\ Len(accs) = Len(call.all_params) * (Multiplicity(call.rule) - 1)
            /\ \A j \in 1..Len(accs) :
                   LET param == PairedParam(call, j)
                   IN  /\ shared[accs[j]].shape = shared[param].shape
                       /\ steps[c] = 0 => shared[accs[j]] = Zeros(shared[param].shape)
                       /\ accs[j] \in Targets(call.updates)
                       /\ GradsOf(UpdateOf(call, accs[j]).value) = {param}
                       /\ Reads(UpdateOf(call, accs[j]).value) \cap Params = {}

\* adadelta was called on the vector parameter and then the scalar one, and
\* another update list has been applied since
C5_Witness ==
    /\ Len(calls) = 2
    /\ calls[1].rule = "adadelta"
    /\ calls[1].all_params = <<2, 1>>
    /\ steps = <<0, 1>>

ReadBy(call) == UNION {Reads(call.updates[k].value) : k \in 1..Len(call.updates)}

\* C6: every call of a rule creates its own accumulators, distinct from the
\* parameters and from each other; each is all zeros until the first step of
\* that call's update list, is a target of and read by that update list, and
\* is neither a target of nor read by the update list of any other call.
C6_Ownership ==
    \A c \in 1..Len(calls) :
        LET accs == calls[c].accumulators
        IN  /\ \A j \in 1..Len(accs) :
                   /\ accs[j] \in DOMAIN shared
                   /\ accs[j] \notin Params
                   /\ steps[c] = 0 => shared[accs[j]] = Zeros(shared[accs[j]].shape)
                   /\ accs[j] \in Targets(calls[c].updates)
                   /\ accs[j] \in ReadBy(calls[c])
                   /\ \A k \in 1..Len(accs) : k # j => accs[k] # accs[j]
                   /\ \A d \in 1..Len(calls) :
                          d # c => /\ accs[j] \notin Range(calls[d].accumulators)
                                   /\ accs[j] \notin Targets(calls[d].updates)
                                   /\ accs[j] \notin ReadBy(calls[d])
            /\ Targets(calls[c].updates) \subseteq Range(calls[c].all_params) \cup Range(accs)
            /\ ReadBy(calls[c]) \subseteq Range(calls[c].all_params) \cup Range(accs)

\* the same rule was called twice on the same parameters, and the first
\* call's update list has been applied
C6_Witness ==
    /\ Len(calls) = 2
    /\ calls[1].rule = "adadelta"
    /\ calls[2].rule = "adadelta"
    /\ calls[1].all_params = <<1, 2>>
    /\ calls[2].all_params = <<1, 2>>
    /\ steps = <<1, 0>>

(***************************************************************************)
(* Properties of the training steps, under SpecTrain                       *)
(***************************************************************************)
Stepped(rule) == last.call # 0 /\ calls[last.call].rule = rule

\* C7: one step of adadelta's update list takes (param, acc, acc_delta) and
\* gradient g to acc' = rho*acc + (1-rho)*g^2,
\* param' = param - learning_rate*update and
\* acc_delta' = rho*acc_delta + (1-rho)*update^2, where
\* update = g*sqrt(acc_delta + epsilon)/sqrt(acc' + epsilon) is computed from
\* the old acc_delta and the new acc', at every step; update itself is not a
\* shared variable.
C7_AdadeltaStep ==
    Stepped("adadelta") =>
        LET call == calls[last.call]
            n    == Len(call.all_params)
        IN  /\ Len(call.accumulators) = 2 * n
            /\ Targets(call.updates) = Range(call.all_params) \cup Range(call.accumulators)
            /\ \A i \in 1..n :
                   LET param     == call.all_params[i]
                       acc       == call.accumulators[i]
                       acc_delta == call.accumulators[n + i]
                       g         == last.grads[param]
                       acc_new   == TAdd(TMul(Scalar(call.rho), last.before[acc]),
                                         TMul(Scalar(RSub(One, call.rho)), TSqr(g)))
                       update    == TDiv(TMul(g, TSqrt(TAdd(last.before[acc_delta],
                                                            Scalar(call.epsilon)))),
                                         TSqrt(TAdd(acc_new, Scalar(call.epsilon))))
                   IN  /\ shared[acc] = acc_new
                       /\ shared[param] =
                              TSub(last.before[param], TMul(Scalar(call.learning_rate), update))
                       /\ shared[acc_delta] =
                              TAdd(TMul(Scalar(call.rho), last.before[acc_delta]),
                                   TMul(Scalar(RSub(One, call.rho)), TSqr(update)))

NonZeroGrads == \A p \in DOMAIN last.grads : \A idx \in Indices(last.grads[p].shape) :
                    last.grads[p].data[idx] # Zero

\* adadelta's update list was applied twice to both parameters, the second
\* time with gradients that are nowhere 0 and a decay rate other than 0
C7_Witness ==
    /\ Stepped("adadelta")
    /\ steps[last.call] = 2
    /\ Len(calls[last.call].all_params) = 2
    /\ calls[last.call].rho # Zero
    /\ NonZeroGrads

\* C9: every step of momentum's update list takes (param, v) and gradient g
\* to v' = momentum*v - learning_rate*g and param' = param + v', the new
\* velocity computed from the old one, so that after the step the stored
\* velocity is the change just made to the parameter.
C9_MomentumStep ==
    Stepped("momentum") =>
        LET call == calls[last.call]
        IN  \A i \in 1..Len(call.all_params) :
                LET param == call.all_params[i]
                    v     == call.accumulators[i]
                    g     == last.grads[param]
                    v_new == TSub(TMul(Scalar(call.momentum), last.before[v]),
                                  TMul(Scalar(call.learning_rate), g))
                IN  /\ shared[v] = v_new
                    /\ shared[param] = TAdd(last.before[param], v_new)
                    /\ shared[v] = TSub(shared[param], last.before[param])

\* momentum's update list was applied twice to both parameters, the second
\* time with gradients that are nowhere 0
C9_Witness ==
    /\ Stepped("momentum")
    /\ steps[last.call] = 2
    /\ Len(calls[last.call].all_params) = 2
    /\ NonZeroGrads

NonNegative(t) == \A idx \in Indices(t.shape) : RLe(Zero, t.data[idx])
Positive(t) == \A idx \in Indices(t.shape) : RLt(Zero, t.data[idx])
NotBelow(t, u) == \A idx \in Indices(t.shape) : RLe(u.data[idx], t.data[idx])

\* C10: with epsilon > 0 and rho in [0, 1), after any steps of adagrad,
\* rmsprop or adadelta every accumulator is >= 0 in every element, adagrad's
\* never decreases, the divisor sqrt(acc_new + epsilon) of the step is > 0
\* and no parameter has become NaN.
C10_AccumulatorsNonNegative ==
    \A c \in 1..Len(calls) :
        LET call == calls[c]
        IN  call.rule \in {"adagrad", "rmsprop", "adadelta"} =>
                /\ \A j \in 1..Len(call.accumulators) :
                       NonNegative(shared[call.accumulators[j]])
                /\ \A i \in 1..Len(call.all_params) :
                       /\ Positive(TSqrt(TAdd(shared[call.accumulators[i]],
                                              Scalar(call.epsilon))))
                       /\ Finite(shared[call.all_params[i]])
                /\ (last.call = c /\ call.rule = "adagrad") =>
                       \A i \in 1..Len(call.all_params) :
                           NotBelow(shared[call.accumulators[i]],
                                    last.before[call.accumulators[i]])

\* rmsprop's update list was applied twice, the second time with gradients
\* that are all 0
C10_Witness ==
    /\ Stepped("rmsprop")
    /\ steps[last.call] = 2
    /\ Len(calls[last.call].all_params) = 2
    /\ \A p \in DOMAIN last.grads : last.grads[p] = Zeros(last.grads[p].shape)

====
